---- MODULE Spec2Model ----
(***************************************************************************)
(* TargetIOR1Calibrator (ctapipe_io_targetio/calibration.py): the R1       *)
(* calibrator for targetio events.  The model follows one calibrator       *)
(* instance from its construction, and two event objects that an event     *)
(* source hands to it.  Arrays are values; the calibrator's reusable       *)
(* output array _r1_wf is one object, and an event whose r1 waveform was   *)
(* assigned that object holds a reference to it, not a copy.               *)
(***************************************************************************)
EXTENDS Integers, Sequences, FiniteSets, TLC

(* ---------------------------------------------------------------------- *)
(* Bounds of the model                                                     *)
(* ---------------------------------------------------------------------- *)
MaxChannels == 2
MaxPixels == 2
NSamples == 2

Seeds == {1, 2}
Events == {"e1", "e2"}
TelIds == {0, 1}

(* ---------------------------------------------------------------------- *)
(* numpy arrays: a dtype and [channel][pixel][sample] data                 *)
(* ---------------------------------------------------------------------- *)
NoneArr == [dtype |-> "None", data |-> <<>>]

Shape(a) ==
  IF a.data = <<>> THEN <<0, 0, 0>>
  ELSE <<Len(a.data), Len(a.data[1]), Len(a.data[1][1])>>

Zeros(shape, dtype) ==
  [dtype |-> dtype,
   data |-> [c \in 1..shape[1] |-> [p \in 1..shape[2] |-> [s \in 1..shape[3] |-> 0]]]]

RECURSIVE Ulp(_)
(* spacing of the float32 numbers around the natural number x: 24 bits of
   significand *)
Ulp(x) == IF x < 16777216 THEN 1 ELSE 2 * Ulp(x \div 2)

(* the float32 nearest to the natural number x, ties to the even significand *)
Float32(x) ==
  LET q == Ulp(x)
      r == x % q
      lo == x - r
  IN IF 2 * r < q THEN lo
     ELSE IF 2 * r > q THEN lo + q
     ELSE IF (lo \div q) % 2 = 0 THEN lo ELSE lo + q

(* a variant of Astype that relabels the dtype and converts no element *)
AstypeIdentity(a, dtype) == [dtype |-> dtype, data |-> a.data]

(* ndarray.astype('float32'): a new array, every element converted *)
Astype(a, dtype) ==
  [dtype |-> dtype,
   data |-> [c \in DOMAIN a.data |->
              [p \in DOMAIN a.data[c] |->
                [s \in DOMAIN a.data[c][p] |-> Float32(a.data[c][p][s])]]]]

(* ---------------------------------------------------------------------- *)
(* Events as the event source produces them                                *)
(* ---------------------------------------------------------------------- *)
Shapes == {<<c, p, NSamples>> : c \in 1..MaxChannels, p \in 1..MaxPixels}

(* seed 1: 16-bit samples; seed 2..: samples above 2^24, which float32
   cannot all represent *)
RawSample(seed, c, p, s) == (seed - 1) * 16777216 + 100 * c + 10 * p + s

RawWaveform(shape, seed) ==
  [dtype |-> IF seed = 1 THEN "uint16" ELSE "uint32",
   data |-> [c \in 1..shape[1] |-> [p \in 1..shape[2] |->
              [s \in 1..shape[3] |-> RawSample(seed, c, p, s)]]]]

(* every shape with 16-bit samples, the widest shapes with large samples too *)
RawWaveforms ==
  {RawWaveform(sh, 1) : sh \in Shapes}
  \cup {RawWaveform(sh, sd) : sh \in {x \in Shapes : x[2] = MaxPixels}, sd \in Seeds}

SmallWaveform == RawWaveform(<<1, 1, NSamples>>, 1)

FirstCellIds(w) == [p \in 1..Shape(w)[2] |-> (w.data[1][p][1] % 4) + p]

NoR1 == [ref |-> "none", arr |-> NoneArr]

(* a fresh event: the raw container filled for the telescopes with data.
   A targetio event has its calibrated container at the defaults; an event
   of another origin comes with the r1 waveforms its own calibrator made. *)
MkEvent(origin, tels, w0) ==
  [origin |-> origin,
   run_id |-> 1,
   event_id |-> 7,
   tels_with_data |-> tels,
   r0 |-> [t \in TelIds |->
            IF t \notin tels THEN NoneArr
            ELSE IF t = 0 THEN w0
            ELSE SmallWaveform],
   first_cell_ids |-> [t \in TelIds |->
            IF t \in tels /\ t = 0 /\ origin = "targetio"
            THEN FirstCellIds(w0) ELSE <<>>],
   r1 |-> [t \in TelIds |->
            IF t \in tels /\ origin # "targetio"
            THEN [ref |-> "own",
                  arr |-> Astype(SmallWaveform, "float32")]
            ELSE NoR1]]

(* the events an event source hands over: targetio events with data for
   telescope 0, with data for telescopes 0 and 1, without data for
   telescope 0, and events of another origin *)
FreshEvents ==
  {MkEvent("targetio", {0}, w) : w \in RawWaveforms}
  \cup {MkEvent("targetio", {0, 1}, SmallWaveform)}
  \cup {MkEvent("targetio", tels, NoneArr) : tels \in {{}, {1}}}
  \cup {MkEvent("hessio", tels, SmallWaveform) : tels \in {{}, {0}, {0, 1}}}

(* ---------------------------------------------------------------------- *)
(* The calibrator                                                          *)
(* ---------------------------------------------------------------------- *)
None == "<None>"
PathValues == {None, "", "ped.tcal"}
DefaultPath == ""

VARIABLES
  constructed,    \* __init__ has returned a calibrator instance
  pedestal_path,  \* the four traits of the instance
  tf_path,
  pe_path,
  ff_path,
  calibrate,      \* the function the instance attribute calibrate names
  calibrator,     \* self.calibrator: the loaded target_calib dataset
  r1_wf,          \* self._r1_wf: the reusable output array
  events,         \* the event objects
  outcome         \* how the last operation ended

vars == <<constructed, pedestal_path, tf_path, pe_path, ff_path, calibrate,
          calibrator, r1_wf, events, outcome>>

traits == <<pedestal_path, tf_path, pe_path, ff_path>>
instance == <<constructed, calibrate, calibrator, r1_wf>>

telid == 0

NoDataset == [loaded |-> FALSE, pedestal |-> "", tf |-> "", aux |-> <<>>]

(* target_calib.Calibrator(pedestal_path, tf_path, [pe_path, ff_path]) *)
tc_Calibrator(ped, tf, aux) ==
  [loaded |-> TRUE, pedestal |-> ped, tf |-> tf, aux |-> aux]

(* a variant of Truthy that tests `is not None` and so takes '' for a path *)
TruthyNotNone(path) == path # None

(* the truth value of a Unicode trait that allows None *)
Truthy(path) == path # None /\ path # ""

(* _load_calib: the calibrator object and the function bound to calibrate *)
_load_calib(ped, tf, pe, ff) ==
  IF Truthy(ped)
  THEN [calibrator |-> tc_Calibrator(ped, tf, <<pe, ff>>),
        calibrate |-> "real_calibrate"]
  ELSE [calibrator |-> NoDataset, calibrate |-> "fake_calibrate"]

Init ==
  /\ constructed = FALSE
  /\ pedestal_path = DefaultPath
  /\ tf_path = DefaultPath
  /\ pe_path = DefaultPath
  /\ ff_path = DefaultPath
  /\ calibrate = "placeholder"
  /\ calibrator = NoDataset
  /\ r1_wf = NoneArr
  /\ events \in [Events -> FreshEvents]
  /\ outcome = "none"

(* TargetIOR1Calibrator(pedestal_path=.., tf_path=.., pe_path=.., ff_path=..):
   loaded says whether target_calib could read the files; when it could not,
   its exception leaves __init__ and no instance exists. *)
Construct(peds, others) ==
  /\ ~constructed
  /\ \E ped \in peds, tf \in others, pe \in others, ff \in others,
        loaded \in BOOLEAN :
       LET lc == _load_calib(ped, tf, pe, ff) IN
       IF lc.calibrator.loaded /\ ~loaded
       THEN /\ outcome' = "LoadError"
            /\ UNCHANGED <<traits, instance, events>>
       ELSE /\ constructed' = TRUE
            /\ pedestal_path' = ped
            /\ tf_path' = tf
            /\ pe_path' = pe
            /\ ff_path' = ff
            /\ r1_wf' = NoneArr
            /\ calibrator' = lc.calibrator
            /\ calibrate' = lc.calibrate
            /\ outcome' = "constructed"
            /\ UNCHANGED events

(* the event source replaces event object e by the next event it read *)
NewEvent(e, fresh) ==
  /\ \E ev \in fresh : events' = [events EXCEPT ![e] = ev]
  /\ outcome' = "none"
  /\ UNCHANGED <<traits, instance>>

(* ---------------------------------------------------------------------- *)
(* calibrate                                                               *)
(* ---------------------------------------------------------------------- *)

(* CameraR1Calibrator.check_r0_exists(event, telid): does the raw container
   of the telescope hold a waveform *)
check_r0_exists(ev, t) == ev.r0[t] # NoneArr

(* a variant of OriginMismatch: the guard left out *)
OriginMismatchNever(ev) == FALSE

(* event.meta['origin'] != 'targetio' *)
OriginMismatch(ev) == ev.origin # "targetio"

(* a variant of SetR1Waveform that assigns to the raw container *)
SetR0Waveform(ev, t, ref) == [ev EXCEPT !.r0[t] = ref.arr]

(* a variant of SetR1Waveform that assigns to another telescope's entry *)
SetR1WaveformOtherTel(ev, t, ref) == [ev EXCEPT !.r1[1 - t] = ref]

(* event.r1.tel[t].waveform = ref *)
SetR1Waveform(ev, t, ref) == [ev EXCEPT !.r1[t] = ref]

(* the array event.r1.tel[t].waveform names *)
R1Waveform(ev, t) ==
  IF ev.r1[t].ref = "buf" THEN r1_wf ELSE ev.r1[t].arr

(* the same, in the state after the step *)
R1WaveformNext(ev, t) ==
  IF ev.r1[t].ref = "buf" THEN r1_wf' ELSE ev.r1[t].arr

(* a variant of NoRawData: an else branch that raises *)
NoRawDataRaises ==
  /\ outcome' = "MissingRawDataError"
  /\ UNCHANGED <<traits, instance, events>>

(* a variant of NoRawData: an else branch that drops the output buffer *)
NoRawDataDropsBuffer ==
  /\ outcome' = "returned"
  /\ r1_wf' = NoneArr
  /\ UNCHANGED <<traits, constructed, calibrate, calibrator, events>>

(* `if self.check_r0_exists(event, self.telid):` has no else: with no raw
   data the function falls off its end and returns None *)
NoRawData ==
  /\ outcome' = "returned"
  /\ UNCHANGED <<traits, instance, events>>

(* fake_calibrate(event) *)
fake_calibrate(e) ==
  LET ev == events[e] IN
  IF OriginMismatch(ev)
  THEN /\ outcome' = "ValueError"
       /\ UNCHANGED <<traits, instance, events>>
  ELSE IF check_r0_exists(ev, telid)
  THEN LET samples == ev.r0[telid] IN
       /\ events' = [events EXCEPT ![e] =
            SetR1Waveform(ev, telid,
                          [ref |-> "own", arr |-> Astype(samples, "float32")])]
       /\ outcome' = "returned"
       /\ UNCHANGED <<traits, instance>>
  ELSE NoRawData

(* what the dataset makes of one raw sample of a pixel whose first cell is
   fci: the pedestal and transfer function are target_calib's, and stand
   here as a fixed function of the dataset, the sample and the cell *)
CorrectedSample(ds, x, fci) ==
  Float32(x) + 1000 - 50 * Len(ds.pedestal) - fci

SameShape2(wfs, out) ==
  /\ Len(wfs) = Len(out)
  /\ \A p \in DOMAIN wfs : Len(wfs[p]) = Len(out[p])

(* calibrator.ApplyEvent(wfs, fci, out): fills out, an [n_pixels, n_samples]
   view, in place.  The set of its possible outcomes: when the two arrays
   have the same shape, out holds the correction of every sample.  When they
   have not, the call is outside what target_calib defines: it raises, or it
   writes the samples both arrays have and leaves the rest of out as it was. *)
ApplyEvent(ds, wfs, fci, out) ==
  LET written == [p \in DOMAIN out |-> [s \in DOMAIN out[p] |->
                    IF p \in DOMAIN wfs /\ s \in DOMAIN wfs[p]
                    THEN CorrectedSample(ds, wfs[p][s], fci[p])
                    ELSE out[p][s]]]
  IN IF SameShape2(wfs, out)
     THEN {[raised |-> FALSE, out |-> written]}
     ELSE {[raised |-> TRUE, out |-> out], [raised |-> FALSE, out |-> written]}

(* if self._r1_wf is None: self._r1_wf = np.zeros(samples.shape, float32) *)
OutputBuffer(buf, samples) ==
  IF buf = NoneArr THEN Zeros(Shape(samples), "float32") ELSE buf

(* real_calibrate(event) *)
real_calibrate(e) ==
  LET ev == events[e] IN
  IF OriginMismatch(ev)
  THEN /\ outcome' = "ValueError"
       /\ UNCHANGED <<traits, instance, events>>
  ELSE IF check_r0_exists(ev, telid)
  THEN LET samples == ev.r0[telid]
           buf == OutputBuffer(r1_wf, samples)
           fci == ev.first_cell_ids[telid]
       IN \E res \in ApplyEvent(calibrator, samples.data[1], fci, buf.data[1]) :
            /\ r1_wf' = [buf EXCEPT !.data[1] = res.out]
            /\ IF res.raised
               THEN /\ outcome' = "ApplyError"
                    /\ UNCHANGED events
               ELSE /\ events' = [events EXCEPT ![e] =
                         SetR1Waveform(ev, telid,
                                       [ref |-> "buf", arr |-> NoneArr])]
                    /\ outcome' = "returned"
            /\ UNCHANGED <<traits, constructed, calibrate, calibrator>>
  ELSE NoRawData

(* r1c.calibrate(event): the instance attribute decides what runs; the
   class's own calibrate is the placeholder, which does nothing *)
CalibrateCall(e) ==
  /\ constructed
  /\ CASE calibrate = "fake_calibrate" -> fake_calibrate(e)
       [] calibrate = "real_calibrate" -> real_calibrate(e)
       [] OTHER -> /\ outcome' = "returned"
                   /\ UNCHANGED <<traits, instance, events>>

Next ==
  \/ Construct(PathValues, {DefaultPath})
  \/ \E e \in Events : NewEvent(e, FreshEvents)
  \/ \E e \in Events : CalibrateCall(e)

Spec == Init /\ [][Next]_vars

(* ---------------------------------------------------------------------- *)
(* The configuration surface: every combination of the four options, and   *)
(* options assigned on the instance after construction, over few events    *)
(* ---------------------------------------------------------------------- *)

(* a variant of SetOption: a trait observer that runs _load_calib again *)
SetOptionReload(name, v) ==
  LET ped == IF name = "pedestal_path" THEN v ELSE pedestal_path
      tf == IF name = "tf_path" THEN v ELSE tf_path
      pe == IF name = "pe_path" THEN v ELSE pe_path
      ff == IF name = "ff_path" THEN v ELSE ff_path
      lc == _load_calib(ped, tf, pe, ff)
  IN /\ constructed
     /\ pedestal_path' = ped
     /\ tf_path' = tf
     /\ pe_path' = pe
     /\ ff_path' = ff
     /\ calibrator' = lc.calibrator
     /\ calibrate' = lc.calibrate
     /\ outcome' = "none"
     /\ UNCHANGED <<constructed, r1_wf, events>>

(* r1c.<trait> = v: traitlets stores the value; the class observes none of
   its traits *)
SetOption(name, v) ==
  /\ constructed
  /\ pedestal_path' = IF name = "pedestal_path" THEN v ELSE pedestal_path
  /\ tf_path' = IF name = "tf_path" THEN v ELSE tf_path
  /\ pe_path' = IF name = "pe_path" THEN v ELSE pe_path
  /\ ff_path' = IF name = "ff_path" THEN v ELSE ff_path
  /\ outcome' = "none"
  /\ UNCHANGED <<instance, events>>

TraitNames == {"pedestal_path", "tf_path", "pe_path", "ff_path"}

ConfigEvents ==
  {MkEvent("targetio", {0}, SmallWaveform),
   MkEvent("targetio", {0}, RawWaveform(<<1, 2, NSamples>>, 1)),
   MkEvent("targetio", {}, NoneArr),
   MkEvent("hessio", {0}, SmallWaveform)}

InitConfig ==
  /\ constructed = FALSE
  /\ pedestal_path = DefaultPath
  /\ tf_path = DefaultPath
  /\ pe_path = DefaultPath
  /\ ff_path = DefaultPath
  /\ calibrate = "placeholder"
  /\ calibrator = NoDataset
  /\ r1_wf = NoneArr
  /\ events = [e \in Events |-> MkEvent("targetio", {}, NoneArr)]
  /\ outcome = "none"

NextConfig ==
  \/ Construct(PathValues, PathValues)
  \/ \E name \in TraitNames, v \in PathValues : SetOption(name, v)
  \/ NewEvent("e1", ConfigEvents)
  \/ CalibrateCall("e1")

SpecConfig == InitConfig /\ [][NextConfig]_vars

TypeOK ==
  /\ constructed \in BOOLEAN
  /\ calibrate \in {"placeholder", "fake_calibrate", "real_calibrate"}
  /\ outcome \in {"none", "constructed", "LoadError", "returned",
                  "ValueError", "ApplyError", "MissingRawDataError"}

(* ---------------------------------------------------------------------- *)
(* Properties                                                              *)
(* ---------------------------------------------------------------------- *)

HasRawData(ev) == ev.r0[telid] # NoneArr

(* array b has float32 dtype, the shape of array a, and holds at every
   index the float32 nearest to the element of a *)
IsFloat32CastOf(b, a) ==
  /\ b.dtype = "float32"
  /\ Shape(b) = Shape(a)
  /\ DOMAIN b.data = DOMAIN a.data
  /\ \A c \in DOMAIN a.data :
       /\ DOMAIN b.data[c] = DOMAIN a.data[c]
       /\ \A p \in DOMAIN a.data[c] :
            /\ DOMAIN b.data[c][p] = DOMAIN a.data[c][p]
            /\ \A s \in DOMAIN a.data[c][p] :
                 b.data[c][p][s] = Float32(a.data[c][p][s])

(* C1: with no pedestal path (calibrate bound to fake_calibrate), every
   calibrate call on a targetio event whose telescope 0 has a raw waveform W
   returns and leaves event.r1.tel[0].waveform equal to W cast to float32,
   element for element and with W's shape, whatever was calibrated before. *)
C1_IdentityIsFloat32Cast ==
  [][\A e \in Events :
       (/\ calibrate = "fake_calibrate"
        /\ events[e].origin = "targetio"
        /\ HasRawData(events[e])
        /\ CalibrateCall(e))
       => /\ outcome' = "returned"
          /\ IsFloat32CastOf(R1WaveformNext(events'[e], 0), events[e].r0[0])]_vars

(* C1 witness: both events were calibrated by fake_calibrate, one of them
   with samples that float32 rounds *)
C1_Witness ==
  /\ calibrate = "fake_calibrate"
  /\ outcome = "returned"
  /\ \A e \in Events : events[e].origin = "targetio" /\ events[e].r1[0].ref = "own"
  /\ \E e \in Events :
       /\ events[e].r0[0].dtype = "uint32"
       /\ Shape(events[e].r0[0])[1] = 2
       /\ events[e].r1[0].arr.data # events[e].r0[0].data
       /\ IsFloat32CastOf(events[e].r1[0].arr, events[e].r0[0])

Absent(path) == path = None \/ path = ""

(* C2: the step that constructs the calibrator binds fake_calibrate exactly
   when the pedestal path is None or empty, and real_calibrate with the
   dataset loaded from the four paths otherwise, for every combination of
   the four options. *)
C2_SelectionByPedestalOnly ==
  [][(~constructed /\ constructed')
       => /\ (calibrate' = "fake_calibrate") <=> Absent(pedestal_path')
          /\ (calibrate' = "real_calibrate") <=> ~Absent(pedestal_path')
          /\ Absent(pedestal_path') => calibrator' = NoDataset
          /\ ~Absent(pedestal_path') =>
               /\ calibrator'.loaded
               /\ calibrator'.pedestal = pedestal_path'
               /\ calibrator'.tf = tf_path'
               /\ calibrator'.aux = <<pe_path', ff_path'>>]_vars

(* C2 witness: constructed with an empty pedestal path and the other three
   options non-empty, and bound to fake_calibrate *)
C2_Witness ==
  /\ constructed
  /\ outcome = "constructed"
  /\ pedestal_path = ""
  /\ tf_path = "ped.tcal" /\ pe_path = "ped.tcal" /\ ff_path = "ped.tcal"
  /\ calibrate = "fake_calibrate"

(* C3: once constructed, no step (calibrate calls that return, skip or
   raise, options assigned on the instance, new events) changes the function
   calibrate is bound to or the loaded dataset, and the bound function is
   never the placeholder. *)
C3_BindingFixed ==
  [][/\ constructed' => calibrate' # "placeholder"
     /\ constructed =>
          /\ constructed'
          /\ calibrate' = calibrate
          /\ calibrator' = calibrator]_vars

(* C3 witness: real_calibrate is still bound, with the dataset it was
   constructed with, after the pedestal path was set to None and the
   transfer-function path changed, and a calibrate call raised *)
C3_Witness ==
  /\ constructed
  /\ calibrate = "real_calibrate"
  /\ pedestal_path = None
  /\ calibrator.pedestal = "ped.tcal"
  /\ tf_path # calibrator.tf
  /\ outcome = "ValueError"

(* C4: in both behaviors a calibrate call on an event whose origin is not
   'targetio' raises the origin error and leaves the event's r1 container,
   and the arrays it names, as they were. *)
C4_OriginGuard ==
  [][\A e \in Events :
       (events[e].origin # "targetio" /\ CalibrateCall(e))
       => /\ outcome' = "ValueError"
          /\ events'[e].r1 = events[e].r1
          /\ \A t \in TelIds :
               R1WaveformNext(events'[e], t) = R1Waveform(events[e], t)]_vars

(* C4 witness: real_calibrate, with its buffer in use, has just refused an
   event of another origin that carries r0 and r1 data *)
C4_Witness ==
  /\ calibrate = "real_calibrate"
  /\ r1_wf # NoneArr
  /\ outcome = "ValueError"
  /\ \E e \in Events :
       /\ events[e].origin = "hessio"
       /\ HasRawData(events[e])
       /\ events[e].r1[0].ref = "own"

CorrectionCall(e) ==
  /\ calibrate = "real_calibrate"
  /\ events[e].origin = "targetio"
  /\ HasRawData(events[e])
  /\ CalibrateCall(e)

(* C6 as claimed: every calibrate call that reaches the correction succeeds
   and leaves a calibrated waveform of the shape of that call's raw
   waveform, whatever shapes were calibrated before. *)
C6_ShapeFollowsRaw ==
  [][\A e \in Events :
       CorrectionCall(e)
       => /\ outcome' = "returned"
          /\ Shape(R1WaveformNext(events'[e], 0)) = Shape(events[e].r0[0])]_vars

RawSide(ev) ==
  <<ev.origin, ev.run_id, ev.event_id, ev.tels_with_data, ev.r0,
    ev.first_cell_ids>>

(* C7: a calibrate call, in either behavior and however it ends, leaves the
   origin, run id, event id, tels_with_data, raw waveforms and first_cell_ids
   of every event as they were; the only field it assigns is the r1 waveform
   of telescope 0 of the event it was called on. *)
C7_RawSideUnchanged ==
  [][\A e \in Events :
       CalibrateCall(e)
       => \A x \in Events :
            /\ RawSide(events'[x]) = RawSide(events[x])
            /\ \A t \in TelIds :
                 (x # e \/ t # telid) => events'[x].r1[t] = events[x].r1[t]]_vars

(* C7 witness: real_calibrate has just filled the r1 waveform of an event
   with two channels, whose raw waveform is still the one the event source
   gave it *)
C7_Witness ==
  /\ calibrate = "real_calibrate"
  /\ outcome = "returned"
  /\ \E e \in Events :
       /\ events[e].r1[0].ref = "buf"
       /\ events[e].r0[0] = RawWaveform(<<2, MaxPixels, NSamples>>, 2)
       /\ Shape(r1_wf) = <<2, MaxPixels, NSamples>>

(* the calibrated waveforms real_calibrate produces from a raw waveform and
   first-cell ids when the calibrator has calibrated nothing before *)
FirstCallResults(ds, samples, fci) ==
  LET buf == OutputBuffer(NoneArr, samples) IN
  {[buf EXCEPT !.data[1] = res.out] :
     res \in {r \in ApplyEvent(ds, samples.data[1], fci, buf.data[1]) : ~r.raised}}

(* C8 as claimed: the calibrated waveform of a call depends on the dataset,
   the raw waveform and the first-cell ids alone: whatever was calibrated
   before, it is the waveform the same inputs give a calibrator that has
   calibrated nothing. *)
C8_HistoryIndependent ==
  [][\A e \in Events :
       (CorrectionCall(e) /\ outcome' = "returned")
       => R1WaveformNext(events'[e], 0)
            \in FirstCallResults(calibrator, events[e].r0[0],
                                 events[e].first_cell_ids[0])]_vars

(* C9 as claimed: after a successful correction, the calibrated waveform has
   the raw waveform's shape and every entry, of every channel, pixel and
   sample, is the dataset's correction of the raw sample at that index. *)
C9_EverySampleCorrected ==
  [][\A e \in Events :
       (CorrectionCall(e) /\ outcome' = "returned")
       => LET raw == events[e].r0[0]
              fci == events[e].first_cell_ids[0]
              out == R1WaveformNext(events'[e], 0)
          IN /\ Shape(out) = Shape(raw)
             /\ \A c \in DOMAIN raw.data : \A p \in DOMAIN raw.data[c] :
                  \A s \in DOMAIN raw.data[c][p] :
                    out.data[c][p][s] =
                      CorrectedSample(calibrator, raw.data[c][p][s], fci[p])]_vars

Populated(ev, t) == ev.r1[t].ref # "none"

(* C10 as claimed: after calibrate returns normally on an event, every
   telescope id in its tels_with_data has a populated r1 waveform. *)
C10_AllTelsPopulated ==
  [][\A e \in Events :
       (CalibrateCall(e) /\ outcome' = "returned")
       => \A t \in events[e].tels_with_data : Populated(events'[e], t)]_vars

(* C10 amended: after calibrate returns normally on an event, telescope 0,
   the one telescope the calibrator handles, has a populated r1 waveform if
   its raw waveform is set; the r1 entries of all other telescope ids are as
   they were before the call. *)
C10_OnlyTelescopeZeroPopulated ==
  [][\A e \in Events :
       (CalibrateCall(e) /\ outcome' = "returned")
       => /\ HasRawData(events[e]) => Populated(events'[e], 0)
          /\ \A t \in TelIds \ {0} : events'[e].r1[t] = events[e].r1[t]]_vars

(* C10 witness: calibrate has returned on an event with data for telescopes
   0 and 1: telescope 0 has its r1 waveform, telescope 1 has none *)
C10_Witness ==
  /\ outcome = "returned"
  /\ calibrate = "fake_calibrate"
  /\ \E e \in Events :
       /\ events[e].tels_with_data = {0, 1}
       /\ events[e].r0[1] # NoneArr
       /\ Populated(events[e], 0)
       /\ ~Populated(events[e], 1)

(* a calibrate call on event e that raises the origin error or finds no
   raw data for telescope 0 *)
FailingOrSkippedCall(e) ==
  /\ OriginMismatch(events[e]) \/ ~HasRawData(events[e])
  /\ CalibrateCall(e)

(* C11: a calibrate call that raises the origin error, or is skipped for
   want of raw data, leaves the calibrator as it was: the bound function,
   the loaded dataset, the output buffer and its contents; so the next call
   starts from the state it would have started from without that call. *)
C11_FailureLeavesCalibrator ==
  [][\A e \in Events :
       FailingOrSkippedCall(e)
       => /\ outcome' \in {"ValueError", "returned"}
          /\ constructed' = constructed
          /\ calibrate' = calibrate
          /\ calibrator' = calibrator
          /\ r1_wf' = r1_wf
          /\ events' = events]_vars

(* C11 witness: real_calibrate has just raised on an event of another
   origin while the other event holds the waveform calibrated before, which
   is still the correction of that event's raw samples *)
C11_Witness ==
  /\ calibrate = "real_calibrate"
  /\ outcome = "ValueError"
  /\ events["e2"].origin = "hessio"
  /\ events["e1"].r1[0].ref = "buf"
  /\ Shape(r1_wf) = Shape(events["e1"].r0[0])
  /\ r1_wf \in FirstCallResults(calibrator, events["e1"].r0[0],
                                events["e1"].first_cell_ids[0])

(* C12 as claimed: in Correction Behavior the calibrated waveform a
   calibrate call stored in an event is not changed by a later calibrate
   call on a different event: the array event.r1.tel[0].waveform names holds
   after the call what it held before. *)
C12_EarlierWaveformKept ==
  [][\A e \in Events :
       (calibrate = "real_calibrate" /\ CalibrateCall(e))
       => \A x \in Events \ {e} :
            Populated(events[x], 0)
            => R1WaveformNext(events'[x], 0) = R1Waveform(events[x], 0)]_vars

====
